---- MODULE Spec2Model ----
(***************************************************************************)
(* The plugin command bridge of figmad-mcp                                 *)
(* (src/src/services/plugin-bridge/server.ts): a WebSocket listener, the   *)
(* single client connection, the table of pending commands with their      *)
(* timers, and the promises handed to the callers of sendCommand.          *)
(*                                                                         *)
(* Node runs every handler to completion on one thread, so each handler    *)
(* (a method call, a socket event, a timer callback) is one action.        *)
(***************************************************************************)
EXTENDS Integers, Sequences, FiniteSets, TLC

(***************************************************************************)
(* Bounds of the model.                                                    *)
(***************************************************************************)
MaxCmds == 2          \* sendCommand calls made in one behaviour
MaxConns == 2         \* inbound connections accepted in one behaviour
MaxListeners == 2     \* WebSocketServer objects created in one behaviour
TicksPerTimeout == 1  \* clock steps that make up one timeout window

(***************************************************************************)
(* Program constants.                                                      *)
(***************************************************************************)
COMMAND_TIMEOUT_MS == 30000

TickMs == COMMAND_TIMEOUT_MS \div TicksPerTimeout

NoConn == 0       \* client === null
NoWss == 0        \* wss === null
NoId == 0         \* a call that never reached generateId

Ids == 1..MaxCmds
CommandTypes == {"CREATE_FRAME", "DELETE_NODE"}

(***************************************************************************)
(* JSON values as they appear in a response frame.                         *)
(***************************************************************************)
Undefined == [t |-> "undefined", s |-> ""]
JsonNull == [t |-> "null", s |-> ""]
Str(s) == [t |-> "string", s |-> s]
Obj(s) == [t |-> "object", s |-> s]

\* JavaScript truthiness of a value (the && and || of handleResponse).
Truthy(v) == \/ v.t = "object"
             \/ v.t = "string" /\ v.s # ""

Results == {Undefined, Obj("{}"), Obj("{nodeId:1:23}")}
ErrorStrings == {Undefined, Str(""), Str("Plugin bridge stopped")}

\* What JSON.parse makes of an inbound frame: it throws, or yields a value.
ResponsesWithId(ids) ==
  [t : {"response"}, id : ids, success : BOOLEAN, result : Results, error : ErrorStrings]
ResponseObjects == ResponsesWithId(Ids)
Frames ==
  {[parses |-> FALSE, value |-> JsonNull], [parses |-> TRUE, value |-> JsonNull]}
    \cup {[parses |-> TRUE, value |-> r] : r \in ResponseObjects}

(***************************************************************************)
(* Errors and promise outcomes.                                            *)
(***************************************************************************)
Error(msg) == [name |-> "Error", message |-> <<msg>>]
PluginNotConnectedError ==
  [name |-> "PluginNotConnectedError",
   message |-> <<"Figma plugin is not connected. Please open Figma and run the figmad plugin.">>]
PluginTimeoutError(commandType, timeoutMs) ==
  [name |-> "PluginTimeoutError",
   message |-> <<"Plugin command '", commandType, "' timed out after ",
                 ToString(timeoutMs), "ms">>]

\* formatErrorForMcp: what a tool reports of an error. The bridge's own
\* error classes are FigmadErrors with the code PLUGIN_BRIDGE_ERROR; a plain
\* Error has no code of its own.
FormatErrorForMcp(error) ==
  IF error.name \in {"PluginNotConnectedError", "PluginTimeoutError"}
    THEN [code |-> "PLUGIN_BRIDGE_ERROR", message |-> error.message]
    ELSE [code |-> "UNKNOWN_ERROR", message |-> error.message]

Resolved(v) == [kind |-> "resolve", value |-> v, error |-> Error("")]
Rejected(e) == [kind |-> "reject", value |-> Undefined, error |-> e]

VARIABLES
  wss,              \* the bridge's listener: NoWss or an index into listeners
  listeners,        \* state of every WebSocketServer created so far
  isRunning,        \* PluginBridge.isRunning
  client,           \* the bridge's client: NoConn or an index into readyState
  readyState,       \* readyState of every connection accepted so far
  pendingCommands,  \* the Map id -> entry
  timers,           \* armed timers, by the call that armed them
  calls,            \* every sendCommand call made so far: its type and id
  settled,          \* per call, the resolve/reject invocations on its promise
  written           \* frames handed to a connection's send(), in order

\* The process around the bridge (startServer).
VARIABLES
  startPromise,     \* per start() call: its listener, and the invocations of its resolve/reject
  serverPhase,      \* how far startServer has come
  exitCode          \* the codes process.exit was called with: NoExit or <<code>>

\* A REST read request under retry (FigmaApiClient.requestWithRetry).
VARIABLES
  retryPc,          \* where retry() is: "idle", "fn", "sleep", "returned", "thrown"
  attempt,          \* the loop variable of retry()
  lastError,        \* retry()'s lastError
  requests,         \* the outcome of every request() made so far, in order
  sleepMs           \* the delay of the sleep in progress

\* The peer: the plugin's UI (src/plugin/ui.ts) and main thread
\* (src/plugin/code.ts), and the frames on their way between them and the
\* bridge.
VARIABLES
  uiWs,             \* the UI's variable ws: NoConn or an index into uiSockets
  uiSockets,        \* readyState of every WebSocket the UI has created
  serverEnd,        \* per UI socket, the bridge's connection for it, or NoConn
  uiStatus,         \* what updateStatus was last called with
  delivered,        \* the frames of written that have reached the UI
  mainInbox,        \* the commands posted to the main thread, in order
  mainStarted,      \* how many of them figma.ui.onmessage has been called for
  mainRunning,      \* those whose handler is waiting inside executeCommand
  uiInbox,          \* the responses posted to the UI, in order
  uiHandled,        \* how many of them the UI's onmessage has been called for
  uiSent,           \* the frames the UI has handed to a socket's send(), in order
  bridgeReceived    \* the frames of uiSent that have reached the bridge

bridgeVars == <<wss, listeners, isRunning, client, readyState, pendingCommands,
                timers, calls, settled, written>>
startupVars == <<startPromise, serverPhase, exitCode>>

retryVars == <<retryPc, attempt, lastError, requests, sleepMs>>

\* Everything outside the bridge object, outside startServer, outside
\* retry().
peerVars == <<uiWs, uiSockets, serverEnd, uiStatus, delivered, mainInbox, mainStarted,
              mainRunning, uiInbox, uiHandled, uiSent, bridgeReceived>>
extVars == <<startupVars, retryVars, peerVars>>
outsideStartup == <<retryVars, peerVars>>
outsideRetry == <<bridgeVars, startupVars, peerVars>>
outsidePeer == <<startupVars, retryVars>>
vars == <<bridgeVars, extVars>>

NoExit == <<>>    \* process.exit has not been called

Min(a, b) == IF a < b THEN a ELSE b

\* Map.set / Map.delete on a function whose domain is the key set.
MapSet(m, k, v) == [x \in DOMAIN m \cup {k} |-> IF x = k THEN v ELSE m[x]]
MapDelete(m, k) == [x \in DOMAIN m \ {k} |-> m[x]]
EmptyMap == [x \in {} |-> 0]

\* The invocation of a caller's resolve or reject continuation.
Settle(s, c, outcome) == [s EXCEPT ![c] = Append(@, outcome)]

Init ==
  /\ wss = NoWss
  /\ listeners = <<>>
  /\ isRunning = FALSE
  /\ client = NoConn
  /\ readyState = <<>>
  /\ pendingCommands = EmptyMap
  /\ timers = EmptyMap
  /\ calls = <<>>
  /\ settled = <<>>
  /\ written = <<>>
  /\ startPromise = <<>>
  /\ serverPhase = "init"
  /\ exitCode = NoExit
  /\ retryPc = "idle"
  /\ attempt = 0
  /\ lastError = Undefined
  /\ requests = <<>>
  /\ sleepMs = 0
  /\ uiWs = NoConn
  /\ uiSockets = <<>>
  /\ serverEnd = <<>>
  /\ uiStatus = FALSE
  /\ delivered = {}
  /\ mainInbox = <<>>
  /\ mainStarted = 0
  /\ mainRunning = {}
  /\ uiInbox = <<>>
  /\ uiHandled = 0
  /\ uiSent = <<>>
  /\ bridgeReceived = {}

(***************************************************************************)
(* start(): returns at once when running, else creates a listener.         *)
(***************************************************************************)
Start ==
  /\ IF isRunning
       THEN UNCHANGED <<wss, listeners>>
       ELSE /\ Len(listeners) < MaxListeners
            /\ listeners' = Append(listeners, "binding")
            /\ wss' = Len(listeners) + 1
  /\ UNCHANGED <<isRunning, client, readyState, pendingCommands, timers, calls,
                 settled, written>>

\* The 'listening' event of a listener; one port, so one listener holds it.
OnListening(l) ==
  /\ listeners[l] = "binding"
  /\ \A o \in DOMAIN listeners : listeners[o] # "listening"
  /\ listeners' = [listeners EXCEPT ![l] = "listening"]
  /\ isRunning' = TRUE
  /\ UNCHANGED <<wss, client, readyState, pendingCommands, timers, calls, settled,
                 written>>

\* The 'error' event of a listener that could not bind.
OnListenError(l) ==
  /\ listeners[l] = "binding"
  /\ listeners' = [listeners EXCEPT ![l] = "failed"]
  /\ UNCHANGED <<wss, isRunning, client, readyState, pendingCommands, timers, calls,
                 settled, written>>

(***************************************************************************)
(* stop(): closes the listener, forgets the client, drains the table.      *)
(***************************************************************************)
\* A faulty variant that C2 rules out: the table is cleared and the timers are
\* cancelled, but no caller is rejected.
StopDrainSilent ==
  LET drained == {pendingCommands[id] : id \in DOMAIN pendingCommands} IN
  /\ timers' = [k \in DOMAIN timers \ {e.timeout : e \in drained} |-> timers[k]]
  /\ settled' = settled
  /\ pendingCommands' = EmptyMap

\* A faulty variant that C11 rules out: the callers are rejected and the
\* table is cleared, but no timer is cancelled.
StopDrainKeepsTimers ==
  LET drained == {pendingCommands[id] : id \in DOMAIN pendingCommands} IN
  /\ timers' = timers
  /\ settled' = [k \in DOMAIN settled |->
                   IF \E e \in drained : e.reject = k
                     THEN Append(settled[k], Rejected(Error("Plugin bridge stopped")))
                     ELSE settled[k]]
  /\ pendingCommands' = EmptyMap

\* A faulty variant that C13 rules out: the callers are rejected and the
\* timers cancelled, but the entries stay in the table, where a second stop()
\* finds them.
StopDrainKeepsEntries ==
  LET drained == {pendingCommands[id] : id \in DOMAIN pendingCommands} IN
  /\ timers' = [k \in DOMAIN timers \ {e.timeout : e \in drained} |-> timers[k]]
  /\ settled' = [k \in DOMAIN settled |->
                   IF \E e \in drained : e.reject = k
                     THEN Append(settled[k], Rejected(Error("Plugin bridge stopped")))
                     ELSE settled[k]]
  /\ pendingCommands' = pendingCommands

StopDrain ==
  LET drained == {pendingCommands[id] : id \in DOMAIN pendingCommands} IN
  /\ timers' = [k \in DOMAIN timers \ {e.timeout : e \in drained} |-> timers[k]]
  /\ settled' = [k \in DOMAIN settled |->
                   IF \E e \in drained : e.reject = k
                     THEN Append(settled[k], Rejected(Error("Plugin bridge stopped")))
                     ELSE settled[k]]
  /\ pendingCommands' = EmptyMap

Stop ==
  /\ IF wss # NoWss
       THEN /\ listeners' = [listeners EXCEPT ![wss] = "closed"]
            /\ wss' = NoWss
       ELSE UNCHANGED <<wss, listeners>>
  /\ client' = NoConn
  /\ isRunning' = FALSE
  /\ StopDrain
  /\ UNCHANGED <<readyState, calls, written>>

(***************************************************************************)
(* handleConnection and the handlers it installs on the connection.        *)
(***************************************************************************)
\* WebSocket.close(): an open socket starts its closing handshake.
SocketClose(state) == IF state = "OPEN" THEN "CLOSING" ELSE state

\* A faulty variant that C9 rules out: replacing the attached peer fails what
\* was sent to it.
HandleConnectionDrains(ws) ==
  /\ readyState' =
       IF client # NoConn
         THEN [Append(readyState, "OPEN") EXCEPT ![client] = SocketClose(@)]
         ELSE Append(readyState, "OPEN")
  /\ client' = ws
  /\ IF client # NoConn
       THEN StopDrain
       ELSE UNCHANGED <<pendingCommands, timers, settled>>

\* A faulty variant that C10 rules out: the connection already attached is kept
\* and left open.
HandleConnectionKeepsFirst(ws) ==
  /\ readyState' = Append(readyState, "OPEN")
  /\ client' = IF client # NoConn THEN client ELSE ws
  /\ UNCHANGED <<pendingCommands, timers, settled>>

HandleConnection(ws) ==
  /\ readyState' =
       IF client # NoConn
         THEN [Append(readyState, "OPEN") EXCEPT ![client] = SocketClose(@)]
         ELSE Append(readyState, "OPEN")
  /\ client' = ws
  /\ UNCHANGED <<pendingCommands, timers, settled>>

\* The 'connection' event of a listening listener.
OnConnection(l) ==
  /\ listeners[l] = "listening"
  /\ Len(readyState) < MaxConns
  /\ HandleConnection(Len(readyState) + 1)
  /\ UNCHANGED <<wss, listeners, isRunning, calls, written>>

\* The response's outcome for the caller of an entry, as handleResponse
\* decides it.
ResponseOutcome(response) ==
  IF response.success /\ Truthy(response.result)
    THEN Resolved(response.result)
    ELSE Rejected(Error(IF Truthy(response.error)
                          THEN response.error.s
                          ELSE "Unknown plugin error"))

\* The oldest entry of the table (Map iteration order is insertion order).
OldestPending ==
  CHOOSE id \in DOMAIN pendingCommands :
    \A o \in DOMAIN pendingCommands : pendingCommands[id].timeout <= pendingCommands[o].timeout

\* A faulty variant that C7 rules out: a response with an unknown id settles
\* the oldest entry.
HandleResponseFallsBack(response) ==
  LET id == IF response.id \in DOMAIN pendingCommands THEN response.id ELSE OldestPending IN
  IF DOMAIN pendingCommands = {}
    THEN UNCHANGED <<pendingCommands, timers, settled>>
    ELSE LET pending == pendingCommands[id] IN
         /\ timers' = MapDelete(timers, pending.timeout)
         /\ pendingCommands' = MapDelete(pendingCommands, id)
         /\ settled' = Settle(settled, pending.resolve, ResponseOutcome(response))

\* A faulty variant that C8 rules out: responses are matched to entries in
\* order of sending, not by id.
HandleResponseInOrder(response) ==
  IF response.id \notin DOMAIN pendingCommands
    THEN UNCHANGED <<pendingCommands, timers, settled>>
    ELSE LET pending == pendingCommands[OldestPending] IN
         /\ timers' = MapDelete(timers, pending.timeout)
         /\ pendingCommands' = MapDelete(pendingCommands, OldestPending)
         /\ settled' = Settle(settled, pending.resolve, ResponseOutcome(response))

\* A faulty variant that C1 rules out: the entry is removed but its timer is
\* left armed.
HandleResponseKeepsTimer(response) ==
  IF response.id \notin DOMAIN pendingCommands
    THEN UNCHANGED <<pendingCommands, timers, settled>>
    ELSE LET pending == pendingCommands[response.id] IN
         /\ timers' = timers
         /\ pendingCommands' = MapDelete(pendingCommands, response.id)
         /\ settled' =
              IF response.success /\ Truthy(response.result)
                THEN Settle(settled, pending.resolve, Resolved(response.result))
                ELSE Settle(settled, pending.reject,
                            Rejected(Error(IF Truthy(response.error)
                                             THEN response.error.s
                                             ELSE "Unknown plugin error")))

HandleResponse(response) ==
  IF response.id \notin DOMAIN pendingCommands
    THEN UNCHANGED <<pendingCommands, timers, settled>>
    ELSE LET pending == pendingCommands[response.id] IN
         /\ timers' = MapDelete(timers, pending.timeout)
         /\ pendingCommands' = MapDelete(pendingCommands, response.id)
         /\ settled' =
              IF response.success /\ Truthy(response.result)
                THEN Settle(settled, pending.resolve, Resolved(response.result))
                ELSE Settle(settled, pending.reject,
                            Rejected(Error(IF Truthy(response.error)
                                             THEN response.error.s
                                             ELSE "Unknown plugin error")))

\* A faulty variant that C16 rules out: a frame that cannot be handled makes
\* the bridge drop the connection it came from.
OnMessageDropsPeer(ws, frame) ==
  /\ readyState[ws] \in {"OPEN", "CLOSING"}
  /\ IF frame.parses /\ frame.value # JsonNull
       THEN HandleResponse(frame.value) /\ UNCHANGED client
       ELSE /\ client' = IF client = ws THEN NoConn ELSE client
            /\ UNCHANGED <<pendingCommands, timers, settled>>
  /\ UNCHANGED <<wss, listeners, isRunning, readyState, calls, written>>

\* The 'message' handler: parse, then handleResponse; any throw is caught.
\* A socket that is closing still delivers the frames it receives.
OnMessage(ws, frame) ==
  /\ readyState[ws] \in {"OPEN", "CLOSING"}
  /\ IF frame.parses /\ frame.value # JsonNull
       THEN HandleResponse(frame.value)
       ELSE UNCHANGED <<pendingCommands, timers, settled>>
  /\ UNCHANGED <<wss, listeners, isRunning, client, readyState, calls, written>>

\* The peer starts the closing handshake (the plugin UI calls ws.close()).
PeerClose(ws) ==
  /\ readyState[ws] = "OPEN"
  /\ readyState' = [readyState EXCEPT ![ws] = "CLOSING"]
  /\ UNCHANGED <<wss, listeners, isRunning, client, pendingCommands, timers, calls,
                 settled, written>>

\* A faulty variant that C14 rules out: the close of the active connection
\* rejects whatever is in flight.
OnCloseDrains(ws) ==
  /\ readyState[ws] \in {"OPEN", "CLOSING"}
  /\ readyState' = [readyState EXCEPT ![ws] = "CLOSED"]
  /\ client' = IF client = ws THEN NoConn ELSE client
  /\ IF client = ws
       THEN StopDrain
       ELSE UNCHANGED <<pendingCommands, timers, settled>>
  /\ UNCHANGED <<wss, listeners, isRunning, calls, written>>

\* A faulty variant that C27 rules out: the close of any connection detaches
\* the peer, whichever connection is current.
OnCloseDetachesAlways(ws) ==
  /\ readyState[ws] \in {"OPEN", "CLOSING"}
  /\ readyState' = [readyState EXCEPT ![ws] = "CLOSED"]
  /\ client' = NoConn
  /\ UNCHANGED <<wss, listeners, isRunning, pendingCommands, timers, calls, settled,
                 written>>

\* The 'close' handler, run when the socket reaches CLOSED.
OnClose(ws) ==
  /\ readyState[ws] \in {"OPEN", "CLOSING"}
  /\ readyState' = [readyState EXCEPT ![ws] = "CLOSED"]
  /\ client' = IF client = ws THEN NoConn ELSE client
  /\ UNCHANGED <<wss, listeners, isRunning, pendingCommands, timers, calls, settled,
                 written>>

\* The 'error' handler of a connection: the transport has failed, the socket
\* is on its way to CLOSED (its 'close' event follows), the handler logs.
OnError(ws) ==
  /\ readyState[ws] \in {"OPEN", "CLOSING"}
  /\ readyState' = [readyState EXCEPT ![ws] = "CLOSING"]
  /\ UNCHANGED <<wss, listeners, isRunning, client, pendingCommands, timers, calls,
                 settled, written>>

(***************************************************************************)
(* isConnected and sendCommand.                                            *)
(***************************************************************************)
\* A faulty variant that C3 rules out: the socket's readyState is not
\* consulted.
IsConnectedIgnoresReadyState == client # NoConn

\* A faulty variant that C15 rules out: a socket counts as connected until it
\* is CLOSED, the closing handshake included.
IsConnectedUntilClosed == client # NoConn /\ readyState[client] # "CLOSED"

IsConnected == client # NoConn /\ readyState[client] = "OPEN"

\* generateId: a time-and-random string, taken here to be unused so far. Ids
\* are opaque, so the n-th id generated is named n.
GenerateId == {Cardinality({k \in DOMAIN calls : calls[k].id # NoId}) + 1}

\* A faulty variant that C6 rules out: the delay is dropped, so the callback is
\* due at once.
SetTimeoutNoDelay(delay) == [delay |-> 0, elapsed |-> 0]

\* setTimeout(callback, delay): a timer that has run for no time yet.
SetTimeout(delay) == [delay |-> delay, elapsed |-> 0]

\* JSON.stringify(fullCommand), the frame written to the connection. The
\* params and the timestamp travel with it unread by the bridge.
FullCommand(type, id) == [id |-> id, type |-> type]

\* A faulty variant that C17 rules out: the frame of a new command is put
\* ahead of the frames already handed to the connection.
SendCommandWritesFirst(type) ==
  /\ Len(calls) < MaxCmds
  /\ LET c == Len(calls) + 1 IN
     IF ~IsConnected
       THEN /\ calls' = Append(calls, [type |-> type, id |-> NoId])
            /\ settled' = Append(settled, <<Rejected(PluginNotConnectedError)>>)
            /\ UNCHANGED <<pendingCommands, timers, written>>
       ELSE \E id \in GenerateId :
            /\ calls' = Append(calls, [type |-> type, id |-> id])
            /\ settled' = Append(settled, <<>>)
            /\ timers' = MapSet(timers, c, SetTimeout(COMMAND_TIMEOUT_MS))
            /\ pendingCommands' =
                 MapSet(pendingCommands, id, [resolve |-> c, reject |-> c, timeout |-> c])
            /\ written' = <<[conn |-> client, data |-> FullCommand(type, id)]>> \o written
  /\ UNCHANGED <<wss, listeners, isRunning, client, readyState>>

SendCommand(type) ==
  /\ Len(calls) < MaxCmds
  /\ LET c == Len(calls) + 1 IN
     IF ~IsConnected
       THEN /\ calls' = Append(calls, [type |-> type, id |-> NoId])
            /\ settled' = Append(settled, <<Rejected(PluginNotConnectedError)>>)
            /\ UNCHANGED <<pendingCommands, timers, written>>
       ELSE \E id \in GenerateId :
            /\ calls' = Append(calls, [type |-> type, id |-> id])
            /\ settled' = Append(settled, <<>>)
            /\ timers' = MapSet(timers, c, SetTimeout(COMMAND_TIMEOUT_MS))
            /\ pendingCommands' =
                 MapSet(pendingCommands, id, [resolve |-> c, reject |-> c, timeout |-> c])
            /\ written' = Append(written, [conn |-> client, data |-> FullCommand(type, id)])
  /\ UNCHANGED <<wss, listeners, isRunning, client, readyState>>

\* The timer callback of the call c, run once its delay has passed.
OnTimeout(c) ==
  /\ c \in DOMAIN timers
  /\ timers[c].elapsed >= timers[c].delay
  /\ timers' = MapDelete(timers, c)
  /\ pendingCommands' = MapDelete(pendingCommands, calls[c].id)
  /\ settled' = Settle(settled, c,
                       Rejected(PluginTimeoutError(calls[c].type, COMMAND_TIMEOUT_MS)))
  /\ UNCHANGED <<wss, listeners, isRunning, client, readyState, calls, written>>

\* Time passes: every armed timer has run TickMs longer.
Tick ==
  /\ \E k \in DOMAIN timers : timers[k].elapsed < COMMAND_TIMEOUT_MS
  /\ timers' = [k \in DOMAIN timers |->
                  [timers[k] EXCEPT !.elapsed = Min(@ + TickMs, COMMAND_TIMEOUT_MS)]]
  /\ UNCHANGED <<wss, listeners, isRunning, client, readyState, pendingCommands,
                 calls, settled, written>>

Next ==
  \/ Start /\ UNCHANGED extVars
  \/ Stop /\ UNCHANGED extVars
  \/ \E l \in DOMAIN listeners : OnListening(l) /\ UNCHANGED extVars
  \/ \E l \in DOMAIN listeners : OnListenError(l) /\ UNCHANGED extVars
  \/ \E l \in DOMAIN listeners : OnConnection(l) /\ UNCHANGED extVars
  \/ \E ws \in DOMAIN readyState : \E frame \in Frames : OnMessage(ws, frame) /\ UNCHANGED extVars
  \/ \E ws \in DOMAIN readyState : PeerClose(ws) /\ UNCHANGED extVars
  \/ \E ws \in DOMAIN readyState : OnClose(ws) /\ UNCHANGED extVars
  \/ \E ws \in DOMAIN readyState : OnError(ws) /\ UNCHANGED extVars
  \/ \E type \in CommandTypes : SendCommand(type) /\ UNCHANGED extVars
  \/ \E c \in DOMAIN timers : OnTimeout(c) /\ UNCHANGED extVars
  \/ Tick /\ UNCHANGED extVars

Spec == Init /\ [][Next]_vars

\* The event loop runs due timer callbacks, and time does not stand still.
FairSpec ==
  /\ Spec
  /\ WF_vars(Tick /\ UNCHANGED extVars)
  /\ \A c \in 1..MaxCmds : WF_vars(OnTimeout(c) /\ UNCHANGED extVars)

(***************************************************************************)
(* The bridge with ids that can repeat. generateId joins the millisecond   *)
(* clock and seven random base-36 digits; nothing keeps two calls in one   *)
(* millisecond from drawing the same digits, so an id can come back while  *)
(* its entry is still in the table.                                        *)
(***************************************************************************)
GenerateIdAnyDraw == Ids

SendCommandAnyDraw(type) ==
  /\ Len(calls) < MaxCmds
  /\ LET c == Len(calls) + 1 IN
     IF ~IsConnected
       THEN /\ calls' = Append(calls, [type |-> type, id |-> NoId])
            /\ settled' = Append(settled, <<Rejected(PluginNotConnectedError)>>)
            /\ UNCHANGED <<pendingCommands, timers, written>>
       ELSE \E id \in GenerateIdAnyDraw :
            /\ calls' = Append(calls, [type |-> type, id |-> id])
            /\ settled' = Append(settled, <<>>)
            /\ timers' = MapSet(timers, c, SetTimeout(COMMAND_TIMEOUT_MS))
            /\ pendingCommands' =
                 MapSet(pendingCommands, id, [resolve |-> c, reject |-> c, timeout |-> c])
            /\ written' = Append(written, [conn |-> client, data |-> FullCommand(type, id)])
  /\ UNCHANGED <<wss, listeners, isRunning, client, readyState>>

NextAnyDraw ==
  \/ Start /\ UNCHANGED extVars
  \/ Stop /\ UNCHANGED extVars
  \/ \E l \in DOMAIN listeners : OnListening(l) /\ UNCHANGED extVars
  \/ \E l \in DOMAIN listeners : OnListenError(l) /\ UNCHANGED extVars
  \/ \E l \in DOMAIN listeners : OnConnection(l) /\ UNCHANGED extVars
  \/ \E ws \in DOMAIN readyState : \E frame \in Frames : OnMessage(ws, frame) /\ UNCHANGED extVars
  \/ \E ws \in DOMAIN readyState : PeerClose(ws) /\ UNCHANGED extVars
  \/ \E ws \in DOMAIN readyState : OnClose(ws) /\ UNCHANGED extVars
  \/ \E ws \in DOMAIN readyState : OnError(ws) /\ UNCHANGED extVars
  \/ \E type \in CommandTypes : SendCommandAnyDraw(type) /\ UNCHANGED extVars
  \/ \E c \in DOMAIN timers : OnTimeout(c) /\ UNCHANGED extVars
  \/ Tick /\ UNCHANGED extVars

SpecAnyDraw == Init /\ [][NextAnyDraw]_vars

(***************************************************************************)
(* The process as src/server.ts wires it: startServer calls start() once   *)
(* and awaits it, then connects the MCP server to stdio; the tools call    *)
(* sendCommand once the server serves. A promise's continuation runs right *)
(* after the handler that settled it, before any other event, so the       *)
(* resumption of startServer is part of the listener's event.              *)
(***************************************************************************)
\* The error a listener reports when it cannot bind its port.
BindError == Error("listen EADDRINUSE")

\* start() and the promise it returns: settled at once when running, else
\* tied to the listener it creates.
StartCall ==
  /\ Start
  /\ startPromise' =
       Append(startPromise,
              IF isRunning
                THEN [wss |-> NoWss, settled |-> <<Resolved(Undefined)>>]
                ELSE [wss |-> Len(listeners) + 1, settled |-> <<>>])

\* resolve() or reject() of the start() call that created listener l.
SettleStart(l, outcome) ==
  [c \in DOMAIN startPromise |->
     IF startPromise[c].wss = l
       THEN [startPromise[c] EXCEPT !.settled = Append(@, outcome)]
       ELSE startPromise[c]]

\* A faulty variant that C21 rules out: the failure is logged and the process
\* lives on.
StartServerCatchLogs ==
  /\ exitCode' = exitCode
  /\ serverPhase' = "failed"

\* The catch block of startServer: log, process.exit(1).
StartServerCatch ==
  /\ exitCode' = <<1>>
  /\ serverPhase' = "exited"

\* startServer after await bridge.start(): createServer, the stdio
\* transport, and the call of server.connect.
StartServerResume ==
  /\ serverPhase' = "connecting"
  /\ exitCode' = exitCode

\* startServer up to its first await.
StartServer ==
  /\ exitCode = NoExit
  /\ serverPhase = "init"
  /\ StartCall
  /\ serverPhase' = "starting"
  /\ exitCode' = exitCode

\* Is startServer waiting for the start() call that created listener l?
AwaitsStart(l) ==
  /\ serverPhase = "starting"
  /\ startPromise[1].wss = l

\* The 'listening' event: isRunning, resolve(), and startServer goes on.
ListeningEvent(l) ==
  /\ exitCode = NoExit
  /\ OnListening(l)
  /\ startPromise' = SettleStart(l, Resolved(Undefined))
  /\ IF AwaitsStart(l) THEN StartServerResume ELSE UNCHANGED <<serverPhase, exitCode>>

\* The 'error' event of a listener: log, reject(error), and startServer's
\* await throws into its catch block.
ListenErrorEvent(l) ==
  /\ exitCode = NoExit
  /\ OnListenError(l)
  /\ startPromise' = SettleStart(l, Rejected(BindError))
  /\ IF AwaitsStart(l) THEN StartServerCatch ELSE UNCHANGED <<serverPhase, exitCode>>

\* server.connect(transport) settles: the server serves, or the failure
\* reaches the catch block.
ServerConnected(ok) ==
  /\ exitCode = NoExit
  /\ serverPhase = "connecting"
  /\ IF ok
       THEN serverPhase' = "serving" /\ exitCode' = exitCode
       ELSE StartServerCatch
  /\ UNCHANGED <<bridgeVars, startPromise>>

\* An event of the bridge in the living process.
Alive == exitCode = NoExit

NextStartup ==
  \/ StartServer /\ UNCHANGED outsideStartup
  \/ \E l \in DOMAIN listeners : ListeningEvent(l) /\ UNCHANGED outsideStartup
  \/ \E l \in DOMAIN listeners : ListenErrorEvent(l) /\ UNCHANGED outsideStartup
  \/ \E ok \in BOOLEAN : ServerConnected(ok) /\ UNCHANGED outsideStartup
  \/ \E l \in DOMAIN listeners : Alive /\ OnConnection(l) /\ UNCHANGED extVars
  \/ \E ws \in DOMAIN readyState : \E frame \in Frames :
       Alive /\ OnMessage(ws, frame) /\ UNCHANGED extVars
  \/ \E ws \in DOMAIN readyState : Alive /\ PeerClose(ws) /\ UNCHANGED extVars
  \/ \E ws \in DOMAIN readyState : Alive /\ OnClose(ws) /\ UNCHANGED extVars
  \/ \E ws \in DOMAIN readyState : Alive /\ OnError(ws) /\ UNCHANGED extVars
  \/ \E type \in CommandTypes :
       Alive /\ serverPhase = "serving" /\ SendCommand(type) /\ UNCHANGED extVars
  \/ \E c \in DOMAIN timers : Alive /\ OnTimeout(c) /\ UNCHANGED extVars
  \/ Alive /\ Tick /\ UNCHANGED extVars

SpecStartup == Init /\ [][NextStartup]_vars

(***************************************************************************)
(* The REST read path: request() under retry().                            *)
(***************************************************************************)
maxAttempts == 3
delayMs == 1000
backoff == TRUE

\* What one request() can come to: the parsed body, a FigmaApiError for a
\* response that is not ok, or the TypeError of a fetch that failed.
FigmaApiError(statusCode) == [name |-> "FigmaApiError", statusCode |-> <<statusCode>>]
FetchError == [name |-> "TypeError", statusCode |-> <<>>]
Body == Obj("{}")
ErrorStatuses == {404, 429, 500, 503}
RequestErrors == {FigmaApiError(code) : code \in ErrorStatuses} \cup {FetchError}

\* isRetryableError: the statuses the documentation names for a retry.
IsRetryableError(error) ==
  /\ error.name = "FigmaApiError"
  /\ error.statusCode \in {<<429>>, <<503>>}

\* requestWithRetry is called: retry() enters its loop and calls fn().
RequestWithRetry ==
  /\ retryPc = "idle"
  /\ retryPc' = "fn"
  /\ attempt' = 1
  /\ UNCHANGED <<lastError, requests, sleepMs>>

\* await fn() returns: retry() returns the value.
FnReturns ==
  /\ retryPc = "fn"
  /\ requests' = Append(requests, Body)
  /\ retryPc' = "returned"
  /\ UNCHANGED <<attempt, lastError, sleepMs>>

\* The catch block of retry(): whatever was thrown is kept, and unless this
\* was the last attempt retry() sleeps before the next one.
FnThrows(error) ==
  /\ retryPc = "fn"
  /\ requests' = Append(requests, error)
  /\ lastError' = error
  /\ IF attempt < maxAttempts
       THEN /\ sleepMs' = IF backoff THEN delayMs * attempt ELSE delayMs
            /\ retryPc' = "sleep"
            /\ attempt' = attempt
       ELSE /\ retryPc' = "thrown"
            /\ attempt' = attempt + 1
            /\ sleepMs' = sleepMs

\* The sleep is over: the loop goes round and calls fn() again.
SleepDone ==
  /\ retryPc = "sleep"
  /\ attempt' = attempt + 1
  /\ sleepMs' = 0
  /\ retryPc' = "fn"
  /\ UNCHANGED <<lastError, requests>>

NextRetry ==
  \/ RequestWithRetry /\ UNCHANGED outsideRetry
  \/ FnReturns /\ UNCHANGED outsideRetry
  \/ \E error \in RequestErrors : FnThrows(error) /\ UNCHANGED outsideRetry
  \/ SleepDone /\ UNCHANGED outsideRetry

SpecRetry == Init /\ [][NextRetry]_vars

(***************************************************************************)
(* The bridge with its peer. The plugin's UI opens the WebSocket, hands    *)
(* each command it receives to the main thread, and forwards each response *)
(* of the main thread to the bridge. Frames of one connection arrive in    *)
(* the order they were sent, each once, while the receiving socket is      *)
(* open; a connection can fail at any time. The bridge's timers and its   *)
(* stop() play no part in what is delivered and are left to Spec.          *)
(***************************************************************************)
\* The command types the peer is sent here: one whose handler runs to its
\* end without waiting, one whose handler waits for a font to load, and one
\* the plugin does not know. sendCommand passes any type on.
PeerCommandTypes == {"CREATE_FRAME", "CREATE_TEXT", "NO_SUCH_TYPE"}
KnownTypes == {"CREATE_FRAME", "CREATE_TEXT"}
AwaitingTypes == {"CREATE_TEXT"}

\* ---- src/plugin/ui.ts ----

\* WebSocket.close() of the browser.
UiSocketClose(state) == IF state \in {"CONNECTING", "OPEN"} THEN "CLOSING" ELSE state

\* connect(): the button, and the timer that runs it once at load. With a
\* socket at hand it disconnects, without one it opens a new socket.
Connect ==
  /\ IF uiWs # NoConn
       THEN /\ uiSockets' = [uiSockets EXCEPT ![uiWs] = UiSocketClose(@)]
            /\ uiWs' = NoConn
            /\ uiStatus' = FALSE
            /\ UNCHANGED serverEnd
       ELSE /\ Len(uiSockets) < MaxConns
            /\ uiSockets' = Append(uiSockets, "CONNECTING")
            /\ serverEnd' = Append(serverEnd, NoConn)
            /\ uiWs' = Len(uiSockets) + 1
            /\ UNCHANGED uiStatus
  /\ UNCHANGED <<delivered, mainInbox, mainStarted, mainRunning, uiInbox, uiHandled,
                 uiSent, bridgeReceived>>

\* The bridge's listener accepts the connection of UI socket s.
Accept(s, l) ==
  /\ uiSockets[s] = "CONNECTING"
  /\ serverEnd[s] = NoConn
  /\ serverEnd' = [serverEnd EXCEPT ![s] = Len(readyState) + 1]
  /\ OnConnection(l)
  /\ UNCHANGED <<uiWs, uiSockets, uiStatus, delivered, mainInbox, mainStarted,
                 mainRunning, uiInbox, uiHandled, uiSent, bridgeReceived>>

\* ws.onopen of socket s.
UiOnOpen(s) ==
  /\ uiSockets[s] = "CONNECTING"
  /\ serverEnd[s] # NoConn
  /\ uiSockets' = [uiSockets EXCEPT ![s] = "OPEN"]
  /\ uiStatus' = TRUE
  /\ UNCHANGED <<uiWs, serverEnd, delivered, mainInbox, mainStarted, mainRunning,
                 uiInbox, uiHandled, uiSent, bridgeReceived>>

\* ws.onclose of socket s, run when s reaches CLOSED (a failed connect
\* included).
UiOnClose(s) ==
  /\ uiSockets[s] # "CLOSED"
  /\ uiSockets' = [uiSockets EXCEPT ![s] = "CLOSED"]
  /\ uiStatus' = FALSE
  /\ uiWs' = NoConn
  /\ UNCHANGED <<serverEnd, delivered, mainInbox, mainStarted, mainRunning,
                 uiInbox, uiHandled, uiSent, bridgeReceived>>

\* JSON.parse of a frame the bridge wrote with JSON.stringify: the command
\* with its id and type.
ParseCommand(data) == [id |-> data.id, type |-> data.type]

\* Frame i of written is the next one due at UI socket s.
NextFrameFor(s, i) ==
  /\ i \in DOMAIN written
  /\ i \notin delivered
  /\ serverEnd[s] # NoConn
  /\ written[i].conn = serverEnd[s]
  /\ \A j \in 1..(i - 1) : written[j].conn = written[i].conn => j \in delivered

\* ws.onmessage of socket s for frame i: parse it, post the command to the
\* main thread.
UiOnMessage(s, i) ==
  /\ uiSockets[s] = "OPEN"
  /\ NextFrameFor(s, i)
  /\ delivered' = delivered \cup {i}
  /\ mainInbox' = Append(mainInbox, ParseCommand(written[i].data))
  /\ UNCHANGED <<uiWs, uiSockets, serverEnd, uiStatus, mainStarted, mainRunning,
                 uiInbox, uiHandled, uiSent, bridgeReceived>>

\* JSON.stringify of a response: a frame that parses to the same response,
\* absent fields absent.
StringifyResponse(response) == [parses |-> TRUE, value |-> response]

\* A faulty variant that C24 rules out: a response is sent, and sent again.
UiWindowOnMessageRepeats ==
  /\ uiHandled < Len(uiInbox)
  /\ uiHandled' = uiHandled + 1
  /\ IF uiWs # NoConn /\ uiSockets[uiWs] = "OPEN"
       THEN LET frame == [sock |-> uiWs, data |-> StringifyResponse(uiInbox[uiHandled + 1])]
            IN uiSent' = uiSent \o <<frame, frame>>
       ELSE UNCHANGED uiSent
  /\ UNCHANGED <<uiWs, uiSockets, serverEnd, uiStatus, delivered, mainInbox,
                 mainStarted, mainRunning, uiInbox, bridgeReceived>>

\* The UI's onmessage for the next response of the main thread: it is sent
\* if the UI holds an open socket, dropped if not.
UiWindowOnMessage ==
  /\ uiHandled < Len(uiInbox)
  /\ uiHandled' = uiHandled + 1
  /\ IF uiWs # NoConn /\ uiSockets[uiWs] = "OPEN"
       THEN uiSent' = Append(uiSent, [sock |-> uiWs,
                                      data |-> StringifyResponse(uiInbox[uiHandled + 1])])
       ELSE UNCHANGED uiSent
  /\ UNCHANGED <<uiWs, uiSockets, serverEnd, uiStatus, delivered, mainInbox,
                 mainStarted, mainRunning, uiInbox, bridgeReceived>>

\* ---- src/plugin/code.ts ----

\* How a handler can end: it returns a result or it throws.
Returns(v) == [returns |-> TRUE, value |-> v, message |-> ""]
Throws(msg) == [returns |-> FALSE, value |-> Undefined, message |-> msg]

\* executeCommand: the handler of the command's type, or the throw of the
\* default branch. A handler returns the node it made or throws on the way
\* (getParent: an invalid parent).
ExecuteCommand(command) ==
  IF command.type \in KnownTypes
    THEN {Returns(Obj("{nodeId:1:23}")), Throws("Invalid parent: 9:9")}
    ELSE {Throws("Unknown command type: " \o command.type)}

\* A faulty variant that C25 rules out: an error of the handler is not
\* caught into a response; a response is made for a result only.
HandleCommandLetsThrow(command, outcome) ==
  IF outcome.returns
    THEN <<[t |-> "response", id |-> command.id, success |-> TRUE,
            result |-> outcome.value, error |-> Undefined]>>
    ELSE <<>>

\* handleCommand: the responses it makes of the handler's end, one.
HandleCommand(command, outcome) ==
  IF outcome.returns
    THEN <<[t |-> "response", id |-> command.id, success |-> TRUE,
            result |-> outcome.value, error |-> Undefined]>>
    ELSE <<[t |-> "response", id |-> command.id, success |-> FALSE,
            result |-> Undefined, error |-> Str(outcome.message)]>>

\* figma.ui.onmessage for the next command message. A handler that does not
\* wait for anything ends within the call and its response is posted before
\* any other message is looked at; one that waits leaves the call open.
FigmaUiOnMessage ==
  /\ mainStarted < Len(mainInbox)
  /\ mainStarted' = mainStarted + 1
  /\ LET command == mainInbox[mainStarted + 1] IN
     IF command.type \in AwaitingTypes
       THEN /\ mainRunning' = mainRunning \cup {mainStarted + 1}
            /\ UNCHANGED uiInbox
       ELSE /\ \E outcome \in ExecuteCommand(command) :
                 uiInbox' = uiInbox \o HandleCommand(command, outcome)
            /\ UNCHANGED mainRunning
  /\ UNCHANGED <<uiWs, uiSockets, serverEnd, uiStatus, delivered, mainInbox,
                 uiHandled, uiSent, bridgeReceived>>

\* What a waiting handler waited for has come: it runs to its end and the
\* response is posted.
FigmaUiOnMessageResumes(m) ==
  /\ m \in mainRunning
  /\ mainRunning' = mainRunning \ {m}
  /\ \E outcome \in ExecuteCommand(mainInbox[m]) :
       uiInbox' = uiInbox \o HandleCommand(mainInbox[m], outcome)
  /\ UNCHANGED <<uiWs, uiSockets, serverEnd, uiStatus, delivered, mainInbox,
                 mainStarted, uiHandled, uiSent, bridgeReceived>>

\* ---- the bridge's end ----

\* Frame k of uiSent is the next one due at the bridge.
NextFrameToBridge(k) ==
  /\ k \in DOMAIN uiSent
  /\ k \notin bridgeReceived
  /\ \A j \in 1..(k - 1) : uiSent[j].sock = uiSent[k].sock => j \in bridgeReceived

\* The 'message' event of the bridge for frame k of uiSent.
BridgeReceives(k) ==
  /\ NextFrameToBridge(k)
  /\ bridgeReceived' = bridgeReceived \cup {k}
  /\ OnMessage(serverEnd[uiSent[k].sock], uiSent[k].data)
  /\ UNCHANGED <<uiWs, uiSockets, serverEnd, uiStatus, delivered, mainInbox,
                 mainStarted, mainRunning, uiInbox, uiHandled, uiSent>>

NextPeer ==
  \/ Start /\ UNCHANGED extVars
  \/ \E l \in DOMAIN listeners : OnListening(l) /\ UNCHANGED extVars
  \/ \E type \in PeerCommandTypes : SendCommand(type) /\ UNCHANGED extVars
  \/ \E ws \in DOMAIN readyState : OnClose(ws) /\ UNCHANGED extVars
  \/ Connect /\ UNCHANGED <<bridgeVars, outsidePeer>>
  \/ \E s \in DOMAIN uiSockets : \E l \in DOMAIN listeners :
       Accept(s, l) /\ UNCHANGED outsidePeer
  \/ \E s \in DOMAIN uiSockets : UiOnOpen(s) /\ UNCHANGED <<bridgeVars, outsidePeer>>
  \/ \E s \in DOMAIN uiSockets : UiOnClose(s) /\ UNCHANGED <<bridgeVars, outsidePeer>>
  \/ \E s \in DOMAIN uiSockets : \E i \in DOMAIN written :
       UiOnMessage(s, i) /\ UNCHANGED <<bridgeVars, outsidePeer>>
  \/ FigmaUiOnMessage /\ UNCHANGED <<bridgeVars, outsidePeer>>
  \/ \E m \in mainRunning : FigmaUiOnMessageResumes(m) /\ UNCHANGED <<bridgeVars, outsidePeer>>
  \/ UiWindowOnMessage /\ UNCHANGED <<bridgeVars, outsidePeer>>
  \/ \E k \in DOMAIN uiSent : BridgeReceives(k) /\ UNCHANGED outsidePeer

SpecPeer == Init /\ [][NextPeer]_vars

(***************************************************************************)
(* The bridge when a write can throw. Inside the executor of the promise   *)
(* sendCommand returns, JSON.stringify(fullCommand) or client.send() can   *)
(* throw (a command that does not serialize, a transport that refuses the  *)
(* frame) after the timer was armed and the entry registered. An executor  *)
(* that throws rejects its promise with what was thrown.                   *)
(***************************************************************************)
WriteError == Error("send failed")

\* sendCommand on an open peer when the last statement but one of the
\* executor throws: the timer and the entry are in place, nothing is
\* written, and the caller's promise is rejected with the error.
SendCommandWriteThrows(type) ==
  /\ Len(calls) < MaxCmds
  /\ IsConnected
  /\ LET c == Len(calls) + 1 IN
     \E id \in GenerateId :
       /\ calls' = Append(calls, [type |-> type, id |-> id])
       /\ timers' = MapSet(timers, c, SetTimeout(COMMAND_TIMEOUT_MS))
       /\ pendingCommands' =
            MapSet(pendingCommands, id, [resolve |-> c, reject |-> c, timeout |-> c])
       /\ settled' = Append(settled, <<Rejected(WriteError)>>)
  /\ UNCHANGED <<wss, listeners, isRunning, client, readyState, written>>

NextWriteThrows ==
  \/ Start /\ UNCHANGED extVars
  \/ Stop /\ UNCHANGED extVars
  \/ \E l \in DOMAIN listeners : OnListening(l) /\ UNCHANGED extVars
  \/ \E l \in DOMAIN listeners : OnListenError(l) /\ UNCHANGED extVars
  \/ \E l \in DOMAIN listeners : OnConnection(l) /\ UNCHANGED extVars
  \/ \E ws \in DOMAIN readyState : \E frame \in Frames : OnMessage(ws, frame) /\ UNCHANGED extVars
  \/ \E ws \in DOMAIN readyState : PeerClose(ws) /\ UNCHANGED extVars
  \/ \E ws \in DOMAIN readyState : OnClose(ws) /\ UNCHANGED extVars
  \/ \E ws \in DOMAIN readyState : OnError(ws) /\ UNCHANGED extVars
  \/ \E type \in CommandTypes : SendCommand(type) /\ UNCHANGED extVars
  \/ \E type \in CommandTypes : SendCommandWriteThrows(type) /\ UNCHANGED extVars
  \/ \E c \in DOMAIN timers : OnTimeout(c) /\ UNCHANGED extVars
  \/ Tick /\ UNCHANGED extVars

SpecWriteThrows == Init /\ [][NextWriteThrows]_vars

(***************************************************************************)
(* Vocabulary of the properties.                                           *)
(***************************************************************************)
Accepted(k) == k \in DOMAIN calls /\ calls[k].id # NoId
Pending(k) == \E id \in DOMAIN pendingCommands : pendingCommands[id].reject = k
Last(s) == s[Len(s)]
StopOutcome == Rejected(Error("Plugin bridge stopped"))
TimeoutOutcome(k) == Rejected(PluginTimeoutError(calls[k].type, COMMAND_TIMEOUT_MS))
TimedOut(k) == k \in DOMAIN settled /\ settled[k] = <<TimeoutOutcome(k)>>
\* A step that changes the table, the timers or the promises and nothing
\* else. Every step of OnMessage that is not a stuttering step is one, by
\* OnMessage's last conjunct; properties about the arrival of a response look
\* for the arriving response on these steps only.
TableStep ==
  /\ vars' # vars
  /\ UNCHANGED <<wss, listeners, isRunning, client, readyState, calls, written>>

\* The 'message' event of connection ws for a frame that holds response r.
Arrives(ws, r) == OnMessage(ws, [parses |-> TRUE, value |-> r])

(***************************************************************************)
(* C1: the continuations of an accepted command are invoked at most once,  *)
(* whatever the interleaving of responses, duplicates, timer expiry and    *)
(* stop(): never a resolve and a reject, never two rejects.                *)
(***************************************************************************)
C1_SettledAtMostOnce ==
  \A k \in DOMAIN settled : Accepted(k) => Len(settled[k]) <= 1

\* One command answered by the peer, one timed out, and the bridge stopped.
C1_Witness ==
  /\ \E k \in DOMAIN settled :
       Accepted(k) /\ Len(settled[k]) = 1 /\ settled[k][1].kind = "resolve"
  /\ \E k \in DOMAIN settled : Accepted(k) /\ TimedOut(k)
  /\ wss = NoWss /\ \E l \in DOMAIN listeners : listeners[l] = "closed"

(***************************************************************************)
(* C2: with timers that fire, every registered command eventually leaves   *)
(* pendingCommands with its caller settled, and no entry leaves the table  *)
(* without its caller being settled in that step.                          *)
(***************************************************************************)
C2_EventuallySettled ==
  /\ \A k \in 1..MaxCmds :
       Pending(k) ~> (k \in DOMAIN settled /\ ~Pending(k) /\ Len(settled[k]) >= 1)
  /\ [][\A k \in DOMAIN settled :
          Pending(k) /\ ~Pending(k)' => Len(settled'[k]) = Len(settled[k]) + 1]_vars

\* A command whose peer has gone away for good, settled by its timer.
C2_Witness ==
  \E k \in DOMAIN settled :
    /\ TimedOut(k)
    /\ ~Pending(k)
    /\ \A ws \in DOMAIN readyState : readyState[ws] = "CLOSED"

(***************************************************************************)
(* C3: a sendCommand call made while no open peer is attached rejects with *)
(* PluginNotConnectedError, registers no entry, arms no timer and writes   *)
(* nothing, then or later: every frame ever written belongs to a call that *)
(* was accepted.                                                           *)
(***************************************************************************)
C3_NotConnectedNeverQueued ==
  /\ [][(Len(calls') = Len(calls) + 1 /\ ~(client # NoConn /\ readyState[client] = "OPEN"))
          => /\ settled' = Append(settled, <<Rejected(PluginNotConnectedError)>>)
             /\ Last(calls').id = NoId
             /\ UNCHANGED <<pendingCommands, timers, written>>]_vars
  /\ [](\A k \in DOMAIN calls :
          calls[k].id = NoId =>
            /\ settled[k] = <<Rejected(PluginNotConnectedError)>>
            /\ ~Pending(k)
            /\ k \notin DOMAIN timers)
  /\ [](/\ Len(written) = Cardinality({k \in DOMAIN calls : Accepted(k)})
        /\ \A i \in DOMAIN written :
             \E k \in DOMAIN calls :
               Accepted(k) /\ written[i].data = FullCommand(calls[k].type, calls[k].id))

\* A call refused while the attached socket was closing or absent, and a
\* peer attached and served afterwards.
C3_Witness ==
  /\ \E k \in DOMAIN calls : calls[k].id = NoId
  /\ client # NoConn /\ readyState[client] = "OPEN"
  /\ Len(written) = 1 /\ written[1].conn = client

(***************************************************************************)
(* C4: a response with success:true for a pending id cancels the timer,    *)
(* removes the entry and resolves the caller with the response's result,   *)
(* whatever the result is, an absent one included.                         *)
(***************************************************************************)
C4_SuccessResolvesWithResult ==
  [][\A ws \in DOMAIN readyState : \A r \in ResponsesWithId(DOMAIN pendingCommands) :
       (r.success /\ Arrives(ws, r))
       => LET pending == pendingCommands[r.id] IN
          /\ pending.timeout \notin DOMAIN timers'
          /\ r.id \notin DOMAIN pendingCommands'
          /\ settled' = Settle(settled, pending.resolve, Resolved(r.result))]_vars

(***************************************************************************)
(* C5: the caller of a pending command is rejected by its matching         *)
(* response exactly when that response has success:false, and the message  *)
(* of the rejection is then the response's error string, unchanged.        *)
(***************************************************************************)
C5_PeerFailureVerbatim ==
  [][\A ws \in DOMAIN readyState : \A r \in ResponsesWithId(DOMAIN pendingCommands) :
       Arrives(ws, r)
       => LET k == pendingCommands[r.id].reject IN
          /\ Last(settled'[k]).kind = "reject" <=> ~r.success
          /\ (~r.success /\ r.error.t = "string")
               => Last(settled'[k]).error = Error(r.error.s)]_vars

(***************************************************************************)
(* C6: a command is rejected with a timeout only by its own timer, armed   *)
(* for 30000 ms like every other, and not before 30000 ms have passed; the *)
(* error carries the command's type and 30000; the entry and the timer are *)
(* gone in that step, and nothing settles the command again afterwards.    *)
(***************************************************************************)
C6_TimeoutAfterWindow ==
  /\ [][\A k \in DOMAIN settled :
          (settled'[k] # settled[k] /\ Last(settled'[k]).error.name = "PluginTimeoutError")
          => /\ k \in DOMAIN timers
             /\ timers[k].elapsed >= COMMAND_TIMEOUT_MS
             /\ settled[k] = <<>>
             /\ Last(settled'[k]) = TimeoutOutcome(k)
             /\ calls[k].id \notin DOMAIN pendingCommands'
             /\ k \notin DOMAIN timers']_vars
  /\ [][\A k \in DOMAIN settled : TimedOut(k) => settled'[k] = settled[k]]_vars
  /\ [](\A k \in DOMAIN timers : timers[k].delay = COMMAND_TIMEOUT_MS)

\* A command timed out while its connection is still open, so that a late
\* reply can still arrive.
C6_Witness ==
  \E k \in DOMAIN settled : \E i \in DOMAIN written :
    /\ TimedOut(k)
    /\ written[i].data.id = calls[k].id
    /\ readyState[written[i].conn] = "OPEN"

(***************************************************************************)
(* C7: a response whose id is not in pendingCommands changes nothing: no   *)
(* caller is settled, no timer is cancelled, every entry stays as it is:   *)
(* no step that changes the table, a timer or a promise is the arrival of  *)
(* such a response.                                                        *)
(***************************************************************************)
C7_UnknownIdIsNoOp ==
  [][~UNCHANGED <<pendingCommands, timers, settled>>
       => \A ws \in DOMAIN readyState :
            \A r \in ResponsesWithId(Ids \ DOMAIN pendingCommands) : ~Arrives(ws, r)]_vars

\* One command already settled (its id is now unknown to the table) while
\* another is pending on an open connection.
C7_Witness ==
  \E k, j \in DOMAIN settled :
    /\ Accepted(k) /\ Len(settled[k]) = 1 /\ ~Pending(k)
    /\ Pending(j) /\ j \in DOMAIN timers
    /\ client # NoConn /\ readyState[client] = "OPEN"

(***************************************************************************)
(* C8: a response for a pending id settles the caller of the command that  *)
(* was sent with that id, with that response's own payload, and leaves the *)
(* entries, timers and promises of all other commands as they were.        *)
(***************************************************************************)
C8_MatchedById ==
  [][TableStep =>
     \A ws \in DOMAIN readyState : \A r \in ResponsesWithId(DOMAIN pendingCommands) :
       Arrives(ws, r)
       => \E k \in DOMAIN calls :
            /\ calls[k].id = r.id
            /\ Len(settled'[k]) = Len(settled[k]) + 1
            /\ Last(settled'[k]).kind = "resolve" => Last(settled'[k]).value = r.result
            /\ \A j \in DOMAIN calls \ {k} :
                 /\ settled'[j] = settled[j]
                 /\ (j \in DOMAIN timers) => (j \in DOMAIN timers' /\ timers'[j] = timers[j])
                 /\ Pending(j) => Pending(j)'
            /\ \A id \in DOMAIN pendingCommands \ {r.id} :
                 id \in DOMAIN pendingCommands' /\ pendingCommands'[id] = pendingCommands[id]]_vars

\* B, sent after A, is resolved while A is still pending.
C8_Witness ==
  \E a, b \in DOMAIN calls :
    /\ a < b
    /\ Pending(a) /\ a \in DOMAIN timers /\ settled[a] = <<>>
    /\ Len(settled[b]) = 1 /\ settled[b][1].kind = "resolve"

C10_LastConnectionWins ==
  /\ [](client \in {NoConn, Len(readyState)})
  /\ [][Len(readyState') > Len(readyState)
          => /\ client' = Len(readyState')
             /\ readyState'[client'] = "OPEN"
             /\ client # NoConn => readyState'[client] # "OPEN"]_vars
  /\ [][written' # written
          => /\ Len(written') = Len(written) + 1
             /\ SubSeq(written', 1, Len(written)) = written
             /\ Last(written').conn = Len(readyState)]_vars

\* A command written to A, A replaced by B and closed, a command written
\* to B.
C10_Witness ==
  /\ Len(written) = 2
  /\ written[1].conn = 1 /\ written[2].conn = 2
  /\ client = 2
  /\ readyState[1] # "OPEN"

(***************************************************************************)
(* C11: stop() drains the table. When stop() returns pendingCommands is    *)
(* empty, every command that was pending has been rejected with the error  *)
(* 'Plugin bridge stopped' and no other promise was touched, and the timer *)
(* of every drained command is cancelled. A timer is armed only for a      *)
(* pending command, so none is armed after stop(), and a caller rejected   *)
(* by stop() is never settled again.                                       *)
(***************************************************************************)
C11_StopDrains ==
  /\ [][Stop
          => /\ pendingCommands' = EmptyMap
             /\ \A k \in DOMAIN settled :
                  settled'[k] = IF Pending(k) THEN Append(settled[k], StopOutcome)
                                              ELSE settled[k]
             /\ \A k \in DOMAIN timers : Pending(k) => k \notin DOMAIN timers'
             /\ timers' = EmptyMap]_vars
  /\ [](\A k \in DOMAIN timers : Pending(k))
  /\ [][\A k \in DOMAIN settled :
          (Accepted(k) /\ settled[k] = <<StopOutcome>>) => settled'[k] = settled[k]]_vars

\* Two commands in flight on an open connection, both drained by stop().
C11_Witness ==
  /\ wss = NoWss /\ client = NoConn /\ ~isRunning
  /\ \E l \in DOMAIN listeners : listeners[l] = "closed"
  /\ Len(calls) = 2
  /\ \A k \in DOMAIN calls : Accepted(k) /\ settled[k] = <<StopOutcome>>
  /\ pendingCommands = EmptyMap /\ timers = EmptyMap
  /\ \E ws \in DOMAIN readyState : readyState[ws] = "OPEN"

(***************************************************************************)
(* C12: stop() closes the attached peer connection as well as the          *)
(* listener: when stop() returns, the socket that was the client is no     *)
(* longer OPEN, so none of its frames reaches handleResponse afterwards.   *)
(***************************************************************************)
C12_StopClosesPeer ==
  [][(Stop /\ client # NoConn) => readyState'[client] # "OPEN"]_vars

(***************************************************************************)
(* C13: stop() is idempotent. A bridge is stopped when it has no listener, *)
(* no client, is not running and has nothing pending: the state of a       *)
(* bridge that was never started. Every stop() ends in a stopped state,    *)
(* and stop() on a stopped bridge changes no state and settles no promise, *)
(* so stop();stop() leaves the bridge where a single stop() leaves it.     *)
(***************************************************************************)
Stopped ==
  /\ wss = NoWss
  /\ client = NoConn
  /\ ~isRunning
  /\ pendingCommands = EmptyMap

C13_StopIdempotent ==
  /\ [][Stop => Stopped']_vars
  /\ [][(Stop /\ Stopped) => UNCHANGED vars]_vars

\* A bridge stopped with a command in flight: the state in which a second
\* stop() is called.
C13_Witness ==
  /\ Stopped
  /\ \E l \in DOMAIN listeners : listeners[l] = "closed"
  /\ Len(calls) = 1 /\ Accepted(1) /\ settled[1] = <<StopOutcome>>
  /\ Len(readyState) = 1

(***************************************************************************)
(* C14: when the close of the active connection is handled the client is   *)
(* detached and nothing else happens: pendingCommands, every timer and     *)
(* every promise are as they were, so no command in flight is cancelled,   *)
(* rejected or resolved by the disconnect itself.                          *)
(***************************************************************************)
C14_DisconnectLeavesPending ==
  [][(client # NoConn /\ readyState[client] # "CLOSED" /\ readyState'[client] = "CLOSED")
       => /\ client' = NoConn
          /\ UNCHANGED <<pendingCommands, timers, settled>>]_vars

\* A command in flight on a connection that has closed, with no peer
\* attached since: still pending, its timer still armed, its caller unsettled.
C14_Witness ==
  \E k \in DOMAIN calls : \E i \in DOMAIN written :
    /\ Pending(k) /\ k \in DOMAIN timers /\ settled[k] = <<>>
    /\ written[i].data.id = calls[k].id
    /\ readyState[written[i].conn] = "CLOSED"
    /\ written[i].conn = Len(readyState)
    /\ client = NoConn /\ isRunning

(***************************************************************************)
(* C15: isConnected() is true exactly when a peer is attached and its      *)
(* socket is OPEN. It is false once the close of the active peer has been  *)
(* handled, while the attached socket is closing, after stop(), and before *)
(* any peer has connected; it is true once a peer has connected.           *)
(***************************************************************************)
C15_IsConnectedMeansOpenPeer ==
  /\ [](IsConnected <=> \E ws \in DOMAIN readyState : client = ws /\ readyState[ws] = "OPEN")
  /\ [](readyState = <<>> => ~IsConnected)
  /\ []((client # NoConn /\ readyState[client] = "CLOSING") => ~IsConnected)
  /\ [][(client # NoConn /\ readyState[client] # "CLOSED" /\ readyState'[client] = "CLOSED")
          => ~IsConnected']_vars
  /\ [][Stop => ~IsConnected']_vars
  /\ [][Len(readyState') > Len(readyState) => IsConnected']_vars

\* The attached peer has started to close its socket and the close has not
\* been handled yet: a client is held and isConnected() is false.
C15_Witness ==
  /\ client # NoConn
  /\ readyState[client] = "CLOSING"
  /\ ~IsConnected
  /\ isRunning

(***************************************************************************)
(* C16: a frame that does not parse as JSON, or that parses to null, is    *)
(* dropped. Its 'message' event changes nothing: pendingCommands, timers   *)
(* and promises are as before, the connection stays attached with its      *)
(* readyState, and the handler returns normally, so the bridge goes on as  *)
(* if the frame had not come.                                              *)
(***************************************************************************)
BadFrames == {frame \in Frames : ~frame.parses \/ frame.value = JsonNull}

C16_BadFrameDropped ==
  [][\A ws \in DOMAIN readyState : \A frame \in BadFrames :
       OnMessage(ws, frame) => UNCHANGED vars]_vars

\* The state in which a bad frame arrives and which it leaves as it is: an
\* open peer attached, a command in flight on it.
C16_Witness ==
  /\ client # NoConn /\ readyState[client] = "OPEN"
  /\ \E k \in DOMAIN calls : \E i \in DOMAIN written :
       /\ Pending(k) /\ k \in DOMAIN timers /\ settled[k] = <<>>
       /\ written[i].data.id = calls[k].id /\ written[i].conn = client
  /\ \E frame \in BadFrames : ENABLED OnMessage(client, frame)

(***************************************************************************)
(* C17: commands are written in the order of their sendCommand calls. The  *)
(* frames handed to send() are, in order, the commands of the accepted     *)
(* calls in the order the calls were made, also when a call is made while  *)
(* earlier ones are still in flight.                                       *)
(***************************************************************************)
AcceptedCalls == SelectSeq(calls, LAMBDA call : call.id # NoId)

C17_WrittenInCallOrder ==
  /\ Len(written) = Len(AcceptedCalls)
  /\ \A i \in DOMAIN written :
       written[i].data = FullCommand(AcceptedCalls[i].type, AcceptedCalls[i].id)

\* Two overlapping calls on one connection: the second was made while the
\* first was in flight, and both are still pending.
C17_Witness ==
  /\ Len(written) = 2
  /\ written[1].conn = written[2].conn
  /\ written[1].data.id # written[2].data.id
  /\ \A k \in DOMAIN calls : Accepted(k) /\ Pending(k) /\ settled[k] = <<>>

(***************************************************************************)
(* C18: registering a command under an id that is already pending is a     *)
(* no-op: a sendCommand call leaves every entry that was in the table as   *)
(* it was and never takes an id that is pending. In every state each       *)
(* pending entry has its own armed timer and there is no timer without an  *)
(* entry: one entry and one timer per id in flight.                        *)
(***************************************************************************)
C18_NoReuseWhilePending ==
  /\ [][Len(calls') > Len(calls)
          => /\ \A id \in DOMAIN pendingCommands :
                  id \in DOMAIN pendingCommands' /\ pendingCommands'[id] = pendingCommands[id]
             /\ Last(calls').id \notin DOMAIN pendingCommands]_vars
  /\ [](/\ \A id \in DOMAIN pendingCommands : pendingCommands[id].timeout \in DOMAIN timers
        /\ Cardinality(DOMAIN timers) = Cardinality(DOMAIN pendingCommands))

(***************************************************************************)
(* C19: a transport error detaches the peer. When the 'error' event of the *)
(* attached connection has been handled, the bridge no longer holds that   *)
(* connection as its client.                                               *)
(***************************************************************************)
C19_ErrorDetaches ==
  [][\A ws \in DOMAIN readyState : (OnError(ws) /\ client = ws) => client' # ws]_vars

(***************************************************************************)
(* C20: the error of a rejection by stop() can be told from the error of   *)
(* every per-command failure. Whenever a caller is rejected by a step that *)
(* is not stop() (not connected, timeout, a failure reported by the peer   *)
(* with whatever error string) the error it gets is reported differently   *)
(* from the error stop() rejects with.                                     *)
(***************************************************************************)
C20_StopErrorDistinct ==
  [][~Stop
       => \A k \in DOMAIN settled' :
            LET before == IF k \in DOMAIN settled THEN settled[k] ELSE <<>> IN
            (settled'[k] # before /\ Last(settled'[k]).kind = "reject")
              => FormatErrorForMcp(Last(settled'[k]).error)
                   # FormatErrorForMcp(Error("Plugin bridge stopped"))]_vars

(***************************************************************************)
(* C21: a listener that cannot bind is fatal. The step in which a listener *)
(* fails to bind rejects the start() call that created it, leaves the      *)
(* bridge not running, creates no other listener in its place, and ends    *)
(* the process with exit code 1. No other event of the bridge ends the     *)
(* process: the only other exit is a failure of server.connect, which      *)
(* touches nothing of the bridge.                                          *)
(***************************************************************************)
BindFails(l) == listeners[l] = "binding" /\ listeners'[l] = "failed"

C21_BindFailureIsFatal ==
  /\ [][\A l \in DOMAIN listeners :
          BindFails(l)
          => /\ \A c \in DOMAIN startPromise :
                  startPromise[c].wss = l
                    => startPromise'[c].settled = <<Rejected(BindError)>>
             /\ ~isRunning'
             /\ Len(listeners') = Len(listeners) /\ wss' = wss
             /\ exitCode' = <<1>>]_vars
  /\ [][exitCode' # exitCode
          => /\ exitCode = NoExit /\ exitCode' = <<1>>
             /\ \/ \E l \in DOMAIN listeners : BindFails(l)
                \/ serverPhase = "connecting" /\ UNCHANGED bridgeVars]_vars
  /\ []((\E l \in DOMAIN listeners : listeners[l] = "failed") => ~isRunning /\ exitCode = <<1>>)

\* The port was taken: start() rejected, the bridge never ran, the process
\* has exited.
C21_Witness ==
  /\ listeners = <<"failed">>
  /\ startPromise = <<[wss |-> 1, settled |-> <<Rejected(BindError)>>]>>
  /\ ~isRunning
  /\ exitCode = <<1>>

(***************************************************************************)
(* C22: the bridge is Stopped (no listener, not running), Starting (a      *)
(* listener, not yet running) or Listening (running), and moves only       *)
(* Stopped -> Starting -> Listening -> Stopped. A peer is attached only    *)
(* while Listening, the client changes only when a connection arrives or   *)
(* the attached one closes (and when the bridge leaves Listening), and a    *)
(* Stopped bridge has no peer and nothing pending.                         *)
(***************************************************************************)
Lifecycle ==
  IF isRunning THEN "Listening"
  ELSE IF wss # NoWss THEN "Starting"
  ELSE "Stopped"

C22_Lifecycle ==
  /\ [][Lifecycle' # Lifecycle
          => <<Lifecycle, Lifecycle'>> \in {<<"Stopped", "Starting">>,
                                            <<"Starting", "Listening">>,
                                            <<"Listening", "Stopped">>}]_vars
  /\ [](client # NoConn => Lifecycle = "Listening")
  /\ [][client' # client
          => \/ Len(readyState') > Len(readyState)
             \/ client # NoConn /\ readyState'[client] = "CLOSED"
             \/ Lifecycle = "Listening" /\ Lifecycle' = "Stopped"]_vars
  /\ [](Lifecycle = "Stopped" => client = NoConn /\ pendingCommands = EmptyMap)

(***************************************************************************)
(* C23: a REST read request is made again only after a failure with status *)
(* 429 or 503, and is made at most 3 times; a failure with any other       *)
(* status, or without one, is thrown to the caller after the first         *)
(* attempt.                                                                *)
(***************************************************************************)
C23_RetryOnly429And503 ==
  /\ [](Len(requests) <= 3)
  /\ [][Len(requests') > Len(requests) /\ requests # <<>>
          => IsRetryableError(Last(requests))]_vars
  /\ []((requests # <<>> /\ requests[1] \in RequestErrors /\ ~IsRetryableError(requests[1]))
          => Len(requests) = 1)

(***************************************************************************)
(* C24: delivery is at most once. Every accepted command is written to a   *)
(* connection exactly once; a written frame reaches the main thread's      *)
(* handler at most once; every response of the main thread is sent to the  *)
(* bridge at most once. Nothing is sent again after a disconnect, a        *)
(* reconnect or the replacement of the peer.                               *)
(***************************************************************************)
Count(seq, Test(_)) == Cardinality({i \in DOMAIN seq : Test(seq[i])})

C24_AtMostOnce ==
  /\ \A k \in DOMAIN calls :
       Accepted(k) => Count(written, LAMBDA w : w.data.id = calls[k].id) = 1
  /\ \A i \in DOMAIN written :
       Count(mainInbox, LAMBDA command : command.id = written[i].data.id)
         = IF i \in delivered THEN 1 ELSE 0
  /\ mainStarted <= Len(mainInbox)
  /\ \A j \in DOMAIN uiInbox :
       Count(uiSent, LAMBDA frame : frame.data.value.id = uiInbox[j].id)
         <= IF j <= uiHandled THEN 1 ELSE 0

\* A command written to a connection that failed before the frame arrived,
\* the UI connected again, and a later command delivered, handled and
\* answered: the first is not written or delivered again.
C24_Witness ==
  /\ Len(written) = 2
  /\ written[1].conn # written[2].conn
  /\ delivered = {2}
  /\ readyState[written[1].conn] = "CLOSED"
  /\ \E k \in DOMAIN uiSent : uiSent[k].data.value.id = written[2].data.id

(***************************************************************************)
(* C25. For every command message the plugin's main thread receives it     *)
(* posts exactly one response with the command's id: success true with the *)
(* handler's result if the handler returns, success false with the error's *)
(* message if it throws, an unknown command type included. handleCommand   *)
(* never throws and no command is answered twice. While a handler is still *)
(* waiting, its command has no response yet.                               *)
(***************************************************************************)
ResponsesOf(command) ==
  {[t |-> "response", id |-> command.id, success |-> outcome.returns,
    result |-> IF outcome.returns THEN outcome.value ELSE Undefined,
    error |-> IF outcome.returns THEN Undefined ELSE Str(outcome.message)] :
     outcome \in ExecuteCommand(command)}

C25_OneResponsePerCommand ==
  /\ \A j \in DOMAIN mainInbox :
       /\ Count(uiInbox, LAMBDA response : response.id = mainInbox[j].id)
            = IF j <= mainStarted /\ j \notin mainRunning THEN 1 ELSE 0
       /\ \A n \in DOMAIN uiInbox :
            uiInbox[n].id = mainInbox[j].id => uiInbox[n] \in ResponsesOf(mainInbox[j])
       /\ mainInbox[j].type \notin KnownTypes =>
            \A n \in DOMAIN uiInbox :
              uiInbox[n].id = mainInbox[j].id =>
                /\ uiInbox[n].success = FALSE
                /\ uiInbox[n].error = Str("Unknown command type: NO_SUCH_TYPE")
  /\ \A n \in DOMAIN uiInbox : \E j \in DOMAIN mainInbox : mainInbox[j].id = uiInbox[n].id

\* Two commands answered: one of an unknown type, answered with the error
\* of the default branch, and one whose handler threw on its way.
C25_Witness ==
  /\ Len(uiInbox) = 2
  /\ mainRunning = {}
  /\ \E n \in DOMAIN uiInbox :
       uiInbox[n].error = Str("Unknown command type: NO_SUCH_TYPE")
  /\ \E n \in DOMAIN uiInbox : uiInbox[n].error = Str("Invalid parent: 9:9")

(***************************************************************************)
(* C26. The peer processes commands serially: the plugin does not begin    *)
(* executing a received command while the handler of an earlier received   *)
(* command has not yet finished and posted its response, so responses      *)
(* leave the plugin in the order the commands arrived.                     *)
(***************************************************************************)
C26_StartsOnlyWhenIdle == [][mainStarted' > mainStarted => mainRunning = {}]_vars

C26_ResponsesInArrivalOrder ==
  \A m, n \in DOMAIN uiInbox : \A i, j \in DOMAIN mainInbox :
    (m < n /\ uiInbox[m].id = mainInbox[i].id /\ uiInbox[n].id = mainInbox[j].id) => i < j

C26_PeerSerial == C26_StartsOnlyWhenIdle /\ []C26_ResponsesInArrivalOrder

(***************************************************************************)
(* C27. A close event delivered for a connection that has already been     *)
(* replaced does not detach the current peer: handling the late close of   *)
(* the replaced connection leaves the client and the value of              *)
(* isConnected() as they were, wherever the close falls after the          *)
(* replacement.                                                            *)
(***************************************************************************)
C27_LateCloseKeepsPeer ==
  [][\A ws \in DOMAIN readyState :
       (/\ readyState[ws] # "CLOSED"
        /\ readyState'[ws] = "CLOSED"
        /\ client # NoConn
        /\ client # ws)
         => /\ client' = client
            /\ IsConnected' = IsConnected]_vars

\* The replaced connection has reached CLOSED and the peer that replaced it
\* is the client, open.
C27_Witness ==
  /\ Len(readyState) = 2
  /\ readyState[1] = "CLOSED"
  /\ client = 2
  /\ IsConnected

(***************************************************************************)
(* C28. In every reachable state an id is in pendingCommands if and only   *)
(* if its command was accepted by sendCommand and its caller's promise is  *)
(* still unsettled, and each entry has exactly one armed timer; this also  *)
(* holds when the write or the serialization inside sendCommand fails      *)
(* after the entry was registered.                                         *)
(***************************************************************************)
C28_PendingIffUnsettled ==
  /\ \A k \in DOMAIN calls :
       (Accepted(k) /\ calls[k].id \in DOMAIN pendingCommands)
         <=> (Accepted(k) /\ settled[k] = <<>>)
  /\ \A id \in DOMAIN pendingCommands :
       /\ \E k \in DOMAIN calls : calls[k].id = id
       /\ pendingCommands[id].timeout \in DOMAIN timers
  /\ Cardinality(DOMAIN timers) = Cardinality(DOMAIN pendingCommands)

(***************************************************************************)
(* C29. A bridge owns at most one listener at any time: a start() call     *)
(* made while the bridge is listening, or while an earlier start() is      *)
(* still starting, does not create a second listener and does not orphan   *)
(* the first. A listener is owned from its creation until it is closed or  *)
(* has failed to bind; it is orphaned when the bridge no longer refers to  *)
(* it.                                                                     *)
(***************************************************************************)
Live(l) == listeners[l] \in {"binding", "listening"}

C29_AtMostOneListener ==
  /\ Cardinality({l \in DOMAIN listeners : Live(l)}) <= 1
  /\ \A l \in DOMAIN listeners : Live(l) => wss = l

(***************************************************************************)
(* C30. In the plugin UI, a close event from a socket that was already     *)
(* replaced (the user disconnects, then reconnects before the old socket's *)
(* close event is delivered) does not clear the reference to the newer     *)
(* socket nor mark it disconnected: whenever the newest socket is open,    *)
(* every response posted by the main thread is forwarded over it to the    *)
(* bridge.                                                                 *)
(***************************************************************************)
Newest == Len(uiSockets)

C30_LateCloseKeepsNewest ==
  [][\A s \in DOMAIN uiSockets :
       (/\ uiSockets[s] # "CLOSED"
        /\ uiSockets'[s] = "CLOSED"
        /\ uiWs # NoConn
        /\ uiWs # s)
         => /\ uiWs' = uiWs
            /\ uiStatus' = uiStatus]_vars

C30_ForwardedOverNewest ==
  [][(/\ uiHandled' = uiHandled + 1
      /\ Newest > 0
      /\ uiSockets[Newest] = "OPEN")
       => /\ Len(uiSent') = Len(uiSent) + 1
          /\ Last(uiSent').sock = Newest
          /\ Last(uiSent').data = StringifyResponse(uiInbox[uiHandled + 1])]_vars

C30_UiLateClose == C30_LateCloseKeepsNewest /\ C30_ForwardedOverNewest

====
